---- MODULE Spec2Model ----
(***************************************************************************)
(* Model of the issue-agent service: the task queue (pendingQueue and      *)
(* runningAgents), the state store (state.json), the processor             *)
(* (processNext, the 1-second tick, triggerProcessing), the admission      *)
(* handlers (GitHub webhook, Linear webhook, retry) and process            *)
(* start / crash / restart.                                                *)
(*                                                                         *)
(* The runtime is a single-threaded event loop: every action below is the  *)
(* code that runs between two suspension points (await) of a handler or    *)
(* of processNext.                                                         *)
(*                                                                         *)
(* Spec follows the queue with the agent runs left abstract. RunSpec       *)
(* follows one issue through runAgent call by call, with the worktrees     *)
(* directory and the orphan cleanup; SaveSpec follows one saveState write  *)
(* by write; SigSpec follows a webhook delivery through its signature      *)
(* verification; PathSpec follows the queue for GitHub issues of           *)
(* repositories with hyphenated names; LossSpec notes the pending tasks a  *)
(* kill finds; FilterSpec follows a Linear delivery through shouldProcess; *)
(* LoadSpec boots the service on any content of state.json.                *)
(***************************************************************************)
EXTENDS Integers, Sequences, FiniteSets, Bags, TLC

VARIABLES
    boot,            \* position of startServer: "init", "cleanup", "up"
    pendingQueue,    \* queue.ts pendingQueue: sequence of QueueItem
    runningAgents,   \* queue.ts runningAgents: Map issueId -> AgentTask
    isProcessing,    \* processor.ts isProcessing
    stateFile,       \* content of state.json
    workers,         \* bag of processNext invocations suspended at an await
    inflight,        \* bag of request handlers suspended at getIssue
    resp,            \* the response sent last
    restored,        \* issue ids restoreRunningTasks put into runningAgents
    saveFailed,      \* the last saveState call caught a write error
    run,             \* agent-runner.ts: per issue, the runAgent call in progress
    worktrees,       \* directories directly under config.worktreesPath
    orphans,         \* what the last cleanupOrphanWorktrees saw and did
    autoCleanOrphans,\* config.autoCleanOrphans (AUTO_CLEAN_ORPHANS)
    killed,          \* issue ids in runningAgents when the process was last killed
    lost,            \* issue ids in pendingQueue when the process was last killed
    disk,            \* state.ts: the bytes of state.json and state.json.tmp
    save,            \* state.ts: the saveState call in progress
    sig,             \* webhook.ts: the delivery whose signature is verified
    flt              \* linear/webhook.ts: the delivery shouldProcess filters

\* The state of the agent runner and of the worktrees directory.
runVars == <<run, worktrees, orphans, autoCleanOrphans, killed, lost>>

\* The state of a saveState call followed write by write.
saveVars == <<disk, save>>

\* The state of a webhook delivery followed through its verification and
\* through the label filter.
sigVars == <<sig, flt>>

\* The state the queue-level actions leave alone.
detailVars == <<runVars, saveVars, sigVars>>

\* The state of the queue, the processor and the admission handlers.
queueVars == <<boot, pendingQueue, runningAgents, isProcessing, stateFile,
               workers, inflight, resp, restored, saveFailed>>

vars == <<queueVars, detailVars>>

----------------------------------------------------------------------------
(* Bound of the model: request handlers suspended at the same time *)
MaxInflight == 2

(* config.maxConcurrentAgents (MAX_CONCURRENT_AGENTS) *)
maxConcurrentAgents == 2

(* Issues known to the trackers; the id fixes the tracker an issue lives in:
   Linear ids are UUIDs, GitHub ids are owner/repo#number. *)
LinearIssues == {"lin-1"}
GithubIssues == {"acme/widgets#42", "acme/gears#42"}
Issues == LinearIssues \cup GithubIssues

EmptyMap == [k \in {} |-> k]

\* Two more GitHub issues, of repositories whose owner or name holds a
\* hyphen.
HyphenIssues == {"acme-web/app#7", "acme/web-app#7"}

\* The owner, repository name and issue number (in decimal) of the GitHub
\* issues.
GithubMetadata ==
    {[owner |-> "acme", repo |-> "widgets", number |-> "42"],
     [owner |-> "acme", repo |-> "gears", number |-> "42"],
     [owner |-> "acme-web", repo |-> "app", number |-> "7"],
     [owner |-> "acme", repo |-> "web-app", number |-> "7"]}

\* The id and identifier of a GitHub issue: owner/repo#number.
issueIdOf(metadata) ==
    metadata.owner \o "/" \o metadata.repo \o "#" \o metadata.number

\* GitHubIssueClient.parseIdentifier: the components of owner/repo#number.
parseIdentifier(issueId) ==
    CHOOSE metadata \in GithubMetadata : issueIdOf(metadata) = issueId

\* client.getBranchName of the issue: the Linear identifier, or
\* owner-repo-number for GitHub. resolve(config.worktreesPath, branchName)
\* is the task's worktreePath, a directory directly under worktreesPath.
getBranchName(issueId) ==
    IF issueId \in LinearIssues
    THEN "ENG-1"
    ELSE LET metadata == parseIdentifier(issueId)
         IN metadata.owner \o "-" \o metadata.repo \o "-" \o metadata.number

----------------------------------------------------------------------------
(* services/queue.ts *)

isQueued(q, issueId) == \E k \in 1..Len(q) : q[k].task.issueId = issueId

isRunning(r, issueId) == issueId \in DOMAIN r

\* The addTask of a queue that forgets the running map.
addTaskQueuedOnly(q, r, task) ==
    IF isQueued(q, task.issueId)
    THEN q
    ELSE Append(q, [task |-> [task EXCEPT !.status = "queued"]])

\* addTask: no-op when the issue is queued or running, else append a
\* QueueItem holding the task with status "queued".
addTask(q, r, task) ==
    IF isQueued(q, task.issueId) \/ isRunning(r, task.issueId)
    THEN q
    ELSE Append(q, [task |-> [task EXCEPT !.status = "queued"]])

\* pendingQueue.pop(): the last item instead of the first.
pop(q) == [item |-> q[Len(q)], rest |-> SubSeq(q, 1, Len(q) - 1)]

\* pendingQueue.shift(): the head item and the queue it leaves.
shift(q) == [item |-> Head(q), rest |-> Tail(q)]

size(q) == Len(q)

\* A capacity check that is off by one.
canStartNewInclusive(r) == Cardinality(DOMAIN r) <= maxConcurrentAgents

canStartNew(r) == Cardinality(DOMAIN r) < maxConcurrentAgents

\* runningAgents.set(key, value)
MapSet(r, key, value) ==
    [k \in DOMAIN r \cup {key} |-> IF k = key THEN value ELSE r[k]]

\* runningAgents.delete(key)
MapDelete(r, key) == [k \in DOMAIN r \ {key} |-> r[k]]

markRunning(r, task) ==
    MapSet(r, task.issueId,
           [task EXCEPT !.status = "running", !.startedAt = "date"])

markComplete(r, issueId) ==
    IF issueId \in DOMAIN r THEN MapDelete(r, issueId) ELSE r

\* A markFailed that only logs.
markFailedKeep(r, issueId) == r

markFailed(r, issueId) ==
    IF issueId \in DOMAIN r THEN MapDelete(r, issueId) ELSE r

getRunningTasks(r) == {r[k] : k \in DOMAIN r}

\* A restore that resets the entries to fresh tasks.
restoreRunningTasksReset(r, tasks) ==
    [k \in DOMAIN r \cup {t.issueId : t \in tasks} |->
        IF \E t \in tasks : t.issueId = k
        THEN [(CHOOSE t \in tasks : t.issueId = k)
                 EXCEPT !.status = "queued", !.startedAt = "none"]
        ELSE r[k]]

RECURSIVE restoreRunningTasks(_, _)
restoreRunningTasks(r, tasks) ==
    IF tasks = {} THEN r
    ELSE LET t == CHOOSE x \in tasks : TRUE
         IN restoreRunningTasks(MapSet(r, t.issueId, t), tasks \ {t})

----------------------------------------------------------------------------
(* services/state.ts *)

NoFile == [exists |-> FALSE, runningAgents |-> {}]

\* JSON.stringify of a task: a Date becomes an ISO string.
Stringify(task) ==
    [task EXCEPT !.startedAt = IF task.startedAt = "date" THEN "iso" ELSE @]

\* loadState's map over the parsed tasks: a startedAt string becomes a Date.
Revive(task) ==
    [task EXCEPT !.startedAt = IF task.startedAt = "iso" THEN "date" ELSE @]

\* A saveState that adds the tasks to those already in the file.
saveStateMerge(file, tasks, ok) ==
    IF ok THEN [exists |-> TRUE,
                runningAgents |-> file.runningAgents
                                    \cup {Stringify(t) : t \in tasks}]
    ELSE file

\* saveState: write state.json.tmp, rename it over state.json; an error is
\* logged and state.json keeps its content.
saveState(file, tasks, ok) ==
    IF ok THEN [exists |-> TRUE, runningAgents |-> {Stringify(t) : t \in tasks}]
    ELSE file

loadState(file) ==
    IF ~file.exists THEN {} ELSE {Revive(t) : t \in file.runningAgents}

----------------------------------------------------------------------------
(* services/processor.ts *)

\* A processNext invocation suspended at an await: the issue it claimed,
\* where it is ("saved": before runAgent, "agent": in runAgent, "recurse":
\* before the call of processNext()), and whether the saveState that
\* followed its markRunning wrote the file.
Worker(issueId, pc, saved) == [issueId |-> issueId, pc |-> pc, saved |-> saved]

\* The invocation for issueId after its try/catch/finally: what runAgent
\* did ("throw": it threw, and the catch block ran).
Finished(issueId, result) ==
    [issueId |-> issueId, pc |-> "recurse", saved |-> TRUE, result |-> result]

PutBag(b, e) == b (+) SetToBag({e})
TakeBag(b, e) == b (-) SetToBag({e})

\* The snapshot taken before markRunning instead of after it.
dispatchSnapshotStale(r, task) == getRunningTasks(r)

\* markRunning(task); saveState(getRunningTasks()): the tasks handed to
\* saveState when task is dispatched from running map r.
dispatchSnapshot(r, task) == getRunningTasks(markRunning(r, task))

\* A processNext that calls markRunning after its first await instead of
\* before it.
processNextLateMark(q, r, w, ok) ==
    IF ~canStartNew(r) \/ q = <<>>
    THEN /\ pendingQueue' = q
         /\ runningAgents' = r
         /\ workers' = w
         /\ UNCHANGED <<stateFile, saveFailed>>
    ELSE LET task == shift(q).item.task
         IN /\ pendingQueue' = shift(q).rest
            /\ runningAgents' = r
            /\ stateFile' = saveState(stateFile, getRunningTasks(r), ok)
            /\ saveFailed' = ~ok
            /\ workers' = PutBag(w, Worker(task.issueId, "saved", ok))

\* A processNext whose saveState lets the write error through: the
\* invocation ends there, before runAgent.
processNextAbortOnError(q, r, w, ok) ==
    IF ~canStartNew(r) \/ q = <<>>
    THEN /\ pendingQueue' = q
         /\ runningAgents' = r
         /\ workers' = w
         /\ UNCHANGED <<stateFile, saveFailed>>
    ELSE LET task == shift(q).item.task
         IN /\ pendingQueue' = shift(q).rest
            /\ runningAgents' = markRunning(r, task)
            /\ stateFile' = saveState(stateFile, dispatchSnapshot(r, task), ok)
            /\ saveFailed' = ~ok
            /\ workers' = IF ok THEN PutBag(w, Worker(task.issueId, "saved", ok))
                          ELSE w

\* processNext up to its first await, on queue q, running map r and
\* suspended invocations w: return at capacity or on an empty queue, else
\* shift the head, markRunning, saveState.
processNext(q, r, w, ok) ==
    IF ~canStartNew(r) \/ q = <<>>
    THEN /\ pendingQueue' = q
         /\ runningAgents' = r
         /\ workers' = w
         /\ UNCHANGED <<stateFile, saveFailed>>
    ELSE LET task == shift(q).item.task
         IN /\ pendingQueue' = shift(q).rest
            /\ runningAgents' = markRunning(r, task)
            /\ stateFile' = saveState(stateFile, dispatchSnapshot(r, task), ok)
            /\ saveFailed' = ~ok
            /\ workers' = PutBag(w, Worker(task.issueId, "saved", ok))

\* The continuation of an await on saveState, whose promise is already
\* resolved, is a microtask: the event loop runs it before the next timer,
\* request, fetch result or child exit.
MicrotaskPending ==
    \E w \in BagToSet(workers) : w.pc \in {"saved", "recurse"}

\* The setInterval callback of startProcessor.
Tick ==
    /\ isProcessing /\ ~MicrotaskPending
    /\ size(pendingQueue) > 0 /\ canStartNew(runningAgents)
    /\ \E ok \in BOOLEAN : processNext(pendingQueue, runningAgents, workers, ok)
    /\ UNCHANGED <<boot, isProcessing, inflight, resp, restored>>
    /\ UNCHANGED detailVars

\* processNext resumes after the first saveState and calls runAgent.
resumeAfterSave(w) ==
    /\ BagIn(w, workers) /\ w.pc = "saved"
    /\ workers' = PutBag(TakeBag(workers, w), [w EXCEPT !.pc = "agent"])
    /\ UNCHANGED <<boot, saveFailed, pendingQueue, runningAgents,
                   isProcessing, stateFile, inflight, resp, restored>>

\* The same, with the agent run left abstract.
WorkerStart(w) ==
    /\ resumeAfterSave(w)
    /\ UNCHANGED detailVars

\* A variant of afterRunAgent whose catch block only logs.
afterRunAgentCatchLogs(w, result) ==
    /\ BagIn(w, workers) /\ w.pc = "agent" /\ ~MicrotaskPending
    /\ \E ok \in BOOLEAN :
         LET r2 == CASE result = "success" ->
                          markComplete(runningAgents, w.issueId)
                     [] result = "failure" ->
                          markFailed(runningAgents, w.issueId)
                     [] OTHER -> runningAgents
         IN /\ runningAgents' = r2
            /\ stateFile' = saveState(stateFile, getRunningTasks(r2), ok)
            /\ saveFailed' = ~ok
            /\ workers' = PutBag(TakeBag(workers, w),
                                 Finished(w.issueId, result))
    /\ UNCHANGED <<boot, pendingQueue, isProcessing, inflight, resp, restored>>

\* A variant of afterRunAgent that queues a failed task again.
afterRunAgentRequeue(w, result) ==
    /\ BagIn(w, workers) /\ w.pc = "agent" /\ ~MicrotaskPending
    /\ \E ok \in BOOLEAN :
         LET r2 == IF result = "success"
                   THEN markComplete(runningAgents, w.issueId)
                   ELSE markFailed(runningAgents, w.issueId)
         IN /\ runningAgents' = r2
            /\ stateFile' = saveState(stateFile, getRunningTasks(r2), ok)
            /\ saveFailed' = ~ok
            /\ workers' = PutBag(TakeBag(workers, w),
                                 Finished(w.issueId, result))
    /\ pendingQueue' =
          IF result = "success" \/ ~isRunning(runningAgents, w.issueId)
          THEN pendingQueue
          ELSE Append(pendingQueue,
                      [task |-> [runningAgents[w.issueId]
                                   EXCEPT !.status = "queued",
                                          !.startedAt = "none"]])
    /\ UNCHANGED <<boot, isProcessing, inflight, resp, restored>>

\* runAgent returned result or threw ("throw"): markComplete or markFailed,
\* then the saveState of the finally block.
afterRunAgent(w, result) ==
    /\ BagIn(w, workers) /\ w.pc = "agent" /\ ~MicrotaskPending
    /\ \E ok \in BOOLEAN :
         LET r2 == IF result = "success"
                   THEN markComplete(runningAgents, w.issueId)
                   ELSE markFailed(runningAgents, w.issueId)
         IN /\ runningAgents' = r2
            /\ stateFile' = saveState(stateFile, getRunningTasks(r2), ok)
            /\ saveFailed' = ~ok
            /\ workers' = PutBag(TakeBag(workers, w),
                                 Finished(w.issueId, result))
    /\ UNCHANGED <<boot, pendingQueue, isProcessing, inflight, resp, restored>>

\* The same, with the agent run left abstract: any result.
AgentReturn(w) ==
    /\ \E result \in {"success", "failure", "throw"} : afterRunAgent(w, result)
    /\ UNCHANGED detailVars

\* processNext resumes after the second saveState and calls processNext().
WorkerRecurse(w) ==
    /\ BagIn(w, workers) /\ w.pc = "recurse"
    /\ \E ok \in BOOLEAN :
         processNext(pendingQueue, runningAgents, TakeBag(workers, w), ok)
    /\ UNCHANGED <<boot, isProcessing, inflight, resp, restored>>
    /\ UNCHANGED detailVars

\* A variant of triggerProcessing that awaits processNext to its end: the
\* dispatched task has run and is out of the running map when it returns.
triggerProcessingAwaited(q) ==
    IF isProcessing /\ canStartNew(runningAgents) /\ q # <<>>
    THEN /\ pendingQueue' = shift(q).rest
         /\ \E ok \in BOOLEAN :
              /\ stateFile' = saveState(stateFile,
                                        getRunningTasks(runningAgents), ok)
              /\ saveFailed' = ~ok
         /\ UNCHANGED <<runningAgents, workers>>
    ELSE /\ pendingQueue' = q
         /\ UNCHANGED <<runningAgents, workers, stateFile, saveFailed>>

\* triggerProcessing on queue q.
triggerProcessing(q) ==
    IF isProcessing /\ canStartNew(runningAgents)
    THEN \E ok \in BOOLEAN : processNext(q, runningAgents, workers, ok)
    ELSE /\ pendingQueue' = q
         /\ UNCHANGED <<runningAgents, workers, stateFile, saveFailed>>

----------------------------------------------------------------------------
(* server.ts *)

\* initialize up to the await of cleanupOrphanWorktrees.
Initialize ==
    /\ boot = "init"
    /\ LET previousTasks == loadState(stateFile)
       IN /\ runningAgents' = IF previousTasks # {}
                              THEN restoreRunningTasks(runningAgents, previousTasks)
                              ELSE runningAgents
          /\ restored' = {t.issueId : t \in previousTasks}
    /\ boot' = "cleanup"
    /\ saveFailed' = FALSE
    /\ UNCHANGED <<pendingQueue, isProcessing, stateFile, workers, inflight,
                   resp>>
    /\ UNCHANGED detailVars

\* A startServer that binds the port without having started the processor.
startServerNoProcessor ==
    /\ boot = "cleanup"
    /\ boot' = "up"
    /\ UNCHANGED <<pendingQueue, runningAgents, isProcessing, stateFile,
                   workers, inflight, resp, restored, saveFailed>>

\* cleanupOrphanWorktrees returned: startProcessor, then Bun.serve.
startServer ==
    /\ boot = "cleanup"
    /\ isProcessing' = TRUE
    /\ boot' = "up"
    /\ UNCHANGED <<pendingQueue, runningAgents, stateFile, workers, inflight,
                   resp, restored, saveFailed>>

\* The same, with the worktrees directory left abstract.
Serve ==
    /\ startServer
    /\ UNCHANGED detailVars

NoResp == [kind |-> "none", issueId |-> "none", code |-> 0, status |-> "none",
           busy |-> FALSE]

\* A restart that finds the pending queue as it was.
killAndStartKeepPending ==
    /\ boot' = "init"
    /\ runningAgents' = EmptyMap
    /\ isProcessing' = FALSE
    /\ workers' = EmptyBag
    /\ inflight' = EmptyBag
    /\ restored' = {}
    /\ resp' = NoResp
    /\ saveFailed' = FALSE
    /\ UNCHANGED <<stateFile, pendingQueue>>

\* The process is killed and started again: the module state is fresh,
\* state.json is what the last successful saveState wrote.
killAndStart ==
    /\ boot' = "init"
    /\ pendingQueue' = <<>>
    /\ runningAgents' = EmptyMap
    /\ isProcessing' = FALSE
    /\ workers' = EmptyBag
    /\ inflight' = EmptyBag
    /\ restored' = {}
    /\ resp' = NoResp
    /\ saveFailed' = FALSE
    /\ UNCHANGED stateFile

\* The same, with the agent runs and the worktrees directory left abstract.
Crash ==
    /\ killAndStart
    /\ UNCHANGED detailVars

----------------------------------------------------------------------------
(* Admission: providers/github/webhook.ts, providers/linear/webhook.ts,
   routes/retry.ts *)

ProviderOf(issueId) == IF issueId \in LinearIssues THEN "linear" ELSE "github"

\* The AgentTask literal the handlers build.
NewTask(issueId, provider) ==
    [issueId |-> issueId, provider |-> provider, status |-> "queued",
     startedAt |-> "none", worktreePath |-> getBranchName(issueId)]

Handler(kind, issueId) == [kind |-> kind, issueId |-> issueId]

\* A response: the handler, the issue, the HTTP code, the status of the
\* body, and whether the issue was queued or running when the handler
\* decided (busy).
Response(kind, issueId, code, status, busy) ==
    [kind |-> kind, issueId |-> issueId, code |-> code, status |-> status,
     busy |-> busy]

\* What client.getIssue / client.getRepository can yield for a request:
\* the issue, null (not found), an issue without repository (the Linear
\* custom field is unset; a GitHub issue always carries its repository),
\* or an error.
FetchResults(issueId) ==
    {"issue", "null", "throw"}
      \cup (IF issueId \in LinearIssues THEN {"norepo"} ELSE {})

Busy(issueId) ==
    isQueued(pendingQueue, issueId) \/ isRunning(runningAgents, issueId)

\* GitHub webhook, a verified issues/labeled delivery carrying the trigger
\* label: the duplicate check, then the await of getIssue.
GithubWebhookCheck(issueId) ==
    /\ boot = "up" /\ ~MicrotaskPending
    /\ IF Busy(issueId)
       THEN /\ resp' = Response("github", issueId, 200, "already_processing", TRUE)
            /\ UNCHANGED inflight
       ELSE /\ BagCardinality(inflight) < MaxInflight
            /\ inflight' = PutBag(inflight, Handler("github", issueId))
            /\ UNCHANGED resp
    /\ UNCHANGED <<boot, saveFailed, pendingQueue, runningAgents,
                   isProcessing, stateFile, workers, restored>>
    /\ UNCHANGED detailVars

\* GitHub webhook after getIssue: 400, or addTask and "enqueued".
GithubWebhookAdmit(h) ==
    /\ BagIn(h, inflight) /\ h.kind = "github" /\ ~MicrotaskPending
    /\ inflight' = TakeBag(inflight, h)
    /\ \E fetch \in FetchResults(h.issueId) :
         IF fetch = "issue"
         THEN /\ pendingQueue' = addTask(pendingQueue, runningAgents,
                                         NewTask(h.issueId, "github"))
              /\ resp' = Response("github", h.issueId, 200, "enqueued",
                                  Busy(h.issueId))
         ELSE /\ resp' = Response("github", h.issueId,
                                  IF fetch = "throw" THEN 500 ELSE 400,
                                  "error", Busy(h.issueId))
              /\ UNCHANGED pendingQueue
    /\ UNCHANGED <<boot, saveFailed, runningAgents, isProcessing, stateFile,
                   workers, restored>>
    /\ UNCHANGED detailVars

\* Linear webhook, a verified label-added delivery carrying the trigger
\* label, from the return of getIssue: 400, the duplicate check, addTask.
LinearWebhook(issueId) ==
    /\ boot = "up" /\ ~MicrotaskPending
    /\ \E fetch \in FetchResults(issueId) :
         IF fetch # "issue"
         THEN /\ resp' = Response("linear", issueId,
                                  IF fetch = "throw" THEN 500 ELSE 400,
                                  "error", Busy(issueId))
              /\ UNCHANGED pendingQueue
         ELSE IF Busy(issueId)
         THEN /\ resp' = Response("linear", issueId, 200, "already_processing",
                                  TRUE)
              /\ UNCHANGED pendingQueue
         ELSE /\ pendingQueue' = addTask(pendingQueue, runningAgents,
                                         NewTask(issueId, "linear"))
              /\ resp' = Response("linear", issueId, 200, "enqueued", FALSE)
    /\ UNCHANGED <<boot, saveFailed, runningAgents, isProcessing, stateFile,
                   workers, inflight, restored>>
    /\ UNCHANGED detailVars

\* Retry up to the await of getIssue, with the provider parameter naming
\* the tracker of the issue: 409 when queued or running.
RetryCheck(issueId) ==
    /\ boot = "up" /\ ~MicrotaskPending
    /\ IF isQueued(pendingQueue, issueId)
       THEN /\ resp' = Response("retry", issueId, 409, "error", TRUE)
            /\ UNCHANGED inflight
       ELSE IF isRunning(runningAgents, issueId)
       THEN /\ resp' = Response("retry", issueId, 409, "error", TRUE)
            /\ UNCHANGED inflight
       ELSE /\ BagCardinality(inflight) < MaxInflight
            /\ inflight' = PutBag(inflight, Handler("retry", issueId))
            /\ UNCHANGED resp
    /\ UNCHANGED <<boot, saveFailed, pendingQueue, runningAgents,
                   isProcessing, stateFile, workers, restored>>
    /\ UNCHANGED detailVars

\* Retry after getIssue: 404 / 400, or addTask, triggerProcessing and 200.
RetryAdmit(h) ==
    /\ BagIn(h, inflight) /\ h.kind = "retry" /\ ~MicrotaskPending
    /\ inflight' = TakeBag(inflight, h)
    /\ \E fetch \in FetchResults(h.issueId) :
         IF fetch = "issue"
         THEN /\ triggerProcessing(addTask(pendingQueue, runningAgents,
                                     NewTask(h.issueId, ProviderOf(h.issueId))))
              /\ resp' = Response("retry", h.issueId, 200, "queued",
                                  Busy(h.issueId))
         ELSE /\ resp' = Response("retry", h.issueId,
                                  CASE fetch = "null" -> 404
                                    [] fetch = "norepo" -> 400
                                    [] OTHER -> 500,
                                  "error", Busy(h.issueId))
              /\ UNCHANGED <<pendingQueue, runningAgents, workers, stateFile,
                             saveFailed>>
    /\ UNCHANGED <<boot, isProcessing, restored>>
    /\ UNCHANGED detailVars

----------------------------------------------------------------------------
(* Signature verification of the webhook handlers:
   providers/github/webhook.ts, providers/linear/webhook.ts *)

\* Bound of the model: characters of a signature header after "sha256=".
MaxHexLen == 3

\* The characters a header is made of: hex digits in lower and upper
\* case, and a character that is no hex digit.
HeaderChars == {"0", "a", "f", "A", "z"}

\* The value of a hex digit, -1 for any other character.
nibble(c) ==
    CASE c = "0" -> 0
      [] c \in {"a", "A"} -> 10
      [] c = "f" -> 15
      [] OTHER -> -1

\* Buffer.from(s, "hex"): two digits give a byte; decoding stops at the
\* first pair that is not two hex digits and drops a trailing single
\* character.
RECURSIVE hexDecode(_)
hexDecode(s) ==
    IF Len(s) < 2 \/ nibble(s[1]) < 0 \/ nibble(s[2]) < 0 THEN <<>>
    ELSE <<16 * nibble(s[1]) + nibble(s[2])>> \o hexDecode(SubSeq(s, 3, Len(s)))

\* digest("hex"): two lower-case digits per byte.
hexDigit(n) == CASE n = 0 -> "0" [] n = 10 -> "a" [] n = 15 -> "f"
RECURSIVE hexEncode(_)
hexEncode(bytes) ==
    IF bytes = <<>> THEN <<>>
    ELSE <<hexDigit(bytes[1] \div 16), hexDigit(bytes[1] % 16)>>
           \o hexEncode(Tail(bytes))

\* Request bodies: a label event carrying the trigger label, another JSON
\* document, and bytes that are no JSON. Webhook secrets.
Bodies == {"trigger", "other", "notjson"}
Secrets == {"k1", "k2"}

\* createHmac("sha256", secret).update(body).digest(): the digest (one
\* byte of it), different for every body and secret here.
hmac(body, secret) ==
    CASE body = "trigger" /\ secret = "k1" -> <<160>>
      [] body = "trigger" /\ secret = "k2" -> <<10>>
      [] body = "other" /\ secret = "k1" -> <<175>>
      [] body = "other" /\ secret = "k2" -> <<250>>
      [] body = "notjson" /\ secret = "k1" -> <<240>>
      [] body = "notjson" /\ secret = "k2" -> <<15>>

\* A signature header: c.req.header(...) ?? null. present is FALSE for
\* null; prefixed says the value starts with "sha256="; hex is the rest.
SigHeader(present, prefixed, hex) ==
    [present |-> present, prefixed |-> prefixed, hex |-> hex]

SigHeaders ==
    {SigHeader(FALSE, FALSE, <<>>)} \cup
    {SigHeader(TRUE, pre, hex) :
        pre \in BOOLEAN,
        hex \in UNION {[1..n -> HeaderChars] : n \in 0..MaxHexLen}}

\* !signature: null or the empty string.
falsy(header) == ~header.present \/ (~header.prefixed /\ header.hex = <<>>)

\* timingSafeEqual(a, b): throws on different lengths (caught: false).
timingSafeEqual(a, b) == Len(a) = Len(b) /\ a = b

\* github/webhook.ts validateSignature.
validateGithub(body, header, secret) ==
    /\ ~falsy(header)
    /\ header.prefixed
    /\ timingSafeEqual(hexDecode(header.hex),
                       hexDecode(hexEncode(hmac(body, secret))))

\* linear/webhook.ts validateSignature: signature === expectedSignature.
validateLinear(body, header, secret) ==
    /\ ~falsy(header)
    /\ ~header.prefixed /\ header.hex = hexEncode(hmac(body, secret))

validateSignature(provider, body, header, secret) ==
    IF provider = "github" THEN validateGithub(body, header, secret)
    ELSE validateLinear(body, header, secret)

\* The delivery being handled: its request, then what the handler did:
\* the verdict of validateSignature, whether JSON.parse ran, whether
\* shouldProcess or the queue was consulted, and the response.
NoDelivery ==
    [pc |-> "none", provider |-> "none", body |-> "none",
     header |-> SigHeader(FALSE, FALSE, <<>>), secret |-> "none",
     valid |-> FALSE, parsed |-> FALSE, consulted |-> FALSE,
     code |-> 0, status |-> "none"]

\* The issue a trigger event names.
issueOf(provider) == IF provider = "github" THEN "acme/widgets#42" ELSE "lin-1"

\* The handler after a successful verification: JSON.parse (400),
\* shouldProcess (ignored), the duplicate check, getIssue, addTask.
\* The result is the delivery record and the pending queue.
verified(d, q, r, fetch) ==
    IF d.body = "notjson"
    THEN [d |-> [d EXCEPT !.pc = "done", !.valid = TRUE, !.parsed = TRUE,
                          !.code = 400, !.status = "error"],
          q |-> q]
    ELSE IF d.body # "trigger"
    THEN [d |-> [d EXCEPT !.pc = "done", !.valid = TRUE, !.parsed = TRUE,
                          !.consulted = TRUE,
                          !.code = 200, !.status = "ignored"],
          q |-> q]
    ELSE IF isQueued(q, issueOf(d.provider)) \/ isRunning(r, issueOf(d.provider))
    THEN [d |-> [d EXCEPT !.pc = "done", !.valid = TRUE, !.parsed = TRUE,
                          !.consulted = TRUE,
                          !.code = 200, !.status = "already_processing"],
          q |-> q]
    ELSE IF fetch # "issue"
    THEN [d |-> [d EXCEPT !.pc = "done", !.valid = TRUE, !.parsed = TRUE,
                          !.consulted = TRUE,
                          !.code = IF fetch = "throw" THEN 500 ELSE 400,
                          !.status = "error"],
          q |-> q]
    ELSE [d |-> [d EXCEPT !.pc = "done", !.valid = TRUE, !.parsed = TRUE,
                          !.consulted = TRUE,
                          !.code = 200, !.status = "enqueued"],
          q |-> addTask(q, r, NewTask(issueOf(d.provider), d.provider))]

\* A handler that does not verify.
handleUnverified(d, q, r, fetch) == verified(d, q, r, fetch)

\* The handler from the return of c.req.text(): 401 unless
\* validateSignature accepts.
handle(d, q, r, fetch) ==
    IF ~validateSignature(d.provider, d.body, d.header, d.secret)
    THEN [d |-> [d EXCEPT !.pc = "done", !.code = 401, !.status = "error"],
          q |-> q]
    ELSE verified(d, q, r, fetch)

\* A request arrives at /webhook/github or /webhook/linear of a service
\* configured with some secret, with any body and signature header: the
\* handler awaits c.req.text().
Deliver ==
    /\ sig.pc = "none"
    /\ \E provider \in {"github", "linear"}, body \in Bodies,
          header \in SigHeaders, secret \in Secrets :
          sig' = [NoDelivery EXCEPT !.pc = "text", !.provider = provider,
                                   !.body = body, !.header = header,
                                   !.secret = secret]
    /\ UNCHANGED <<queueVars, runVars, saveVars, flt>>

\* The handler runs from the body to its response.
Handle ==
    /\ sig.pc = "text"
    /\ \E fetch \in FetchResults(issueOf(sig.provider)) :
         LET h == handle(sig, pendingQueue, runningAgents, fetch)
         IN /\ sig' = h.d
            /\ pendingQueue' = h.q
    /\ UNCHANGED <<boot, saveFailed, runningAgents, isProcessing, stateFile,
                   workers, inflight, resp, restored>>
    /\ UNCHANGED <<runVars, saveVars, flt>>

\* The response is sent; the handler is over.
Respond ==
    /\ sig.pc = "done"
    /\ sig' = NoDelivery
    /\ UNCHANGED <<queueVars, runVars, saveVars, flt>>

SigNext ==
    \/ Deliver
    \/ Handle
    \/ Respond

----------------------------------------------------------------------------
(* providers/linear/webhook.ts shouldProcess, one getLabel call at a time *)

\* Bound of the model: label ids in one label-id list of a payload.
MaxLabels == 2

\* The labels of the workspace and IssueLabel.name of each.
LabelIds == {"L1", "L2", "L3"}
labelName(id) ==
    CASE id = "L1" -> "Agent"
      [] id = "L2" -> "bug"
      [] id = "L3" -> "agent"

\* config.linearTriggerLabel as the operator may have written it.
TriggerLabels == {"agent", "AGENT"}

\* String.prototype.toLowerCase on the names above.
toLowerCase(s) == IF s \in {"agent", "Agent", "AGENT"} THEN "agent" ELSE s

LabelLists == UNION {[1..n -> LabelIds] : n \in 0..MaxLabels}

\* A parsed WebhookPayload: type, action, whether updatedFrom.labelIds is
\* there and its value, data.labelIds || [], whether data.id is there.
Payloads ==
    [type : {"Issue", "Comment"}, action : {"update", "create"},
     hasPrevious : BOOLEAN, previous : LabelLists, current : LabelLists,
     hasId : BOOLEAN]

\* The delivery being filtered: the payload and the configured trigger
\* label, the added label ids still to resolve, the ids getLabel returned
\* a label for, the verdict of shouldProcess and the response.
NoPayload ==
    [pc |-> "none", type |-> "none", action |-> "none",
     hasPrevious |-> FALSE, previous |-> <<>>, current |-> <<>>,
     hasId |-> FALSE, trigger |-> "none", rest |-> <<>>, resolved |-> {},
     admit |-> FALSE, status |-> "none"]

\* A shouldProcess that looks at every current label.
addedLabelIdsCurrent(current, previous) == current

\* currentLabelIds.filter((id) => !previousLabelIds.includes(id)).
addedLabelIds(current, previous) ==
    SelectSeq(current,
              LAMBDA id : \A k \in 1..Len(previous) : previous[k] # id)

\* label.name.toLowerCase() === config.linearTriggerLabel.toLowerCase().
matchesTrigger(name, trigger) == toLowerCase(name) = toLowerCase(trigger)

\* shouldProcess up to its first await: the checks of type, action and
\* updatedFrom.labelIds, then the added label ids; with none, the verdict
\* is false at once.
filterStart(p) ==
    IF p.type # "Issue" \/ p.action # "update" \/ ~p.hasPrevious
    THEN [p EXCEPT !.pc = "filtered", !.admit = FALSE]
    ELSE LET added == addedLabelIds(p.current, p.previous)
         IN IF added = <<>>
            THEN [p EXCEPT !.pc = "filtered", !.admit = FALSE]
            ELSE [p EXCEPT !.pc = "getLabel", !.rest = added]

\* shouldProcess from the return of getLabel for the first id of rest:
\* found is FALSE when getLabel caught an error and returned null. A
\* matching name ends the loop with true; the last id ends it with false.
afterGetLabel(p, found) ==
    LET id == Head(p.rest)
        q  == [p EXCEPT !.resolved = IF found THEN @ \cup {id} ELSE @,
                        !.rest = Tail(@)]
    IN IF found /\ matchesTrigger(labelName(id), p.trigger)
       THEN [q EXCEPT !.pc = "filtered", !.admit = TRUE]
       ELSE IF q.rest = <<>>
       THEN [q EXCEPT !.pc = "filtered", !.admit = FALSE]
       ELSE q

\* A verified delivery arrives at /webhook/linear and is parsed.
FilterDeliver ==
    /\ flt.pc = "none"
    /\ \E p \in Payloads, trigger \in TriggerLabels :
         flt' = [NoPayload EXCEPT
                   !.pc = "parsed", !.type = p.type, !.action = p.action,
                   !.hasPrevious = p.hasPrevious,
                   !.previous = IF p.hasPrevious THEN p.previous ELSE <<>>,
                   !.current = p.current, !.hasId = p.hasId,
                   !.trigger = trigger]
    /\ UNCHANGED <<queueVars, runVars, saveVars, sig>>

FilterBegin ==
    /\ flt.pc = "parsed"
    /\ flt' = filterStart(flt)
    /\ UNCHANGED <<queueVars, runVars, saveVars, sig>>

FilterGetLabel ==
    /\ flt.pc = "getLabel"
    /\ \E found \in BOOLEAN : flt' = afterGetLabel(flt, found)
    /\ UNCHANGED <<queueVars, runVars, saveVars, sig>>

\* The handler from the return of shouldProcess: "ignored" unless the
\* verdict is true and the payload names its issue, else the await of
\* getIssue.
FilterDecide ==
    /\ flt.pc = "filtered"
    /\ flt' = IF ~flt.admit \/ ~flt.hasId
              THEN [flt EXCEPT !.pc = "done", !.status = "ignored"]
              ELSE [flt EXCEPT !.pc = "getIssue"]
    /\ UNCHANGED <<queueVars, runVars, saveVars, sig>>

\* The handler from the return of getIssue to its response.
FilterGetIssue ==
    /\ flt.pc = "getIssue"
    /\ \E fetch \in FetchResults("lin-1") :
         IF fetch # "issue"
         THEN /\ flt' = [flt EXCEPT !.pc = "done", !.status = "error"]
              /\ UNCHANGED pendingQueue
         ELSE IF Busy("lin-1")
         THEN /\ flt' = [flt EXCEPT !.pc = "done",
                                    !.status = "already_processing"]
              /\ UNCHANGED pendingQueue
         ELSE /\ flt' = [flt EXCEPT !.pc = "done", !.status = "enqueued"]
              /\ pendingQueue' = addTask(pendingQueue, runningAgents,
                                         NewTask("lin-1", "linear"))
    /\ UNCHANGED <<boot, saveFailed, runningAgents, isProcessing, stateFile,
                   workers, inflight, resp, restored>>
    /\ UNCHANGED <<runVars, saveVars, sig>>

\* The response is sent; the handler is over.
FilterRespond ==
    /\ flt.pc = "done"
    /\ flt' = NoPayload
    /\ UNCHANGED <<queueVars, runVars, saveVars, sig>>

FilterNext ==
    \/ FilterDeliver
    \/ FilterBegin
    \/ FilterGetLabel
    \/ FilterDecide
    \/ FilterGetIssue
    \/ FilterRespond

----------------------------------------------------------------------------
(* services/state.ts, one saveState call write by write *)

\* STATE_FILE and a saveState that writes it in place.
STATE_FILE == "state.json"
writeTargetInPlace == STATE_FILE

\* STATE_TEMP, the path writeFileSync is given.
STATE_TEMP == "state.json.tmp"
writeTarget == STATE_TEMP

\* A file: whether it exists and its bytes, as a sequence of pieces.
AbsentFile == [exists |-> FALSE, data |-> <<>>]
File(data) == [exists |-> TRUE, data |-> data]

NoDisk == [f \in {STATE_FILE, STATE_TEMP} |-> AbsentFile]
NoSave == [pc |-> "idle", content |-> <<>>, prev |-> AbsentFile,
           loaded |-> {}]

\* The order getRunningTasks lists the tasks in.
TaskOrder == <<"lin-1", "acme/widgets#42", "acme/gears#42">>

\* JSON.stringify(state, null, 2): the opening of the object, one piece per
\* task, the closing.
stringifyState(ids) ==
    <<"{">> \o SelectSeq(TaskOrder, LAMBDA i : i \in ids) \o <<"}">>

\* JSON.parse accepts the bytes and the document has a runningAgents
\* list: they are a complete state object. (The document null parses,
\* and reading its runningAgents throws.)
parses(data) ==
    /\ Len(data) >= 2
    /\ data[1] = "{" /\ data[Len(data)] = "}"
    /\ \A k \in 2..Len(data) - 1 : data[k] \in Issues

\* A loadState that takes every task it finds in the bytes.
loadIdsLenient(f) ==
    IF f.exists
    THEN {f.data[k] : k \in {j \in 1..Len(f.data) : f.data[j] \in Issues}}
    ELSE {}

\* loadState on state.json f: no file, a parse error or a document without
\* runningAgents give no tasks.
loadIds(f) ==
    IF f.exists /\ parses(f.data)
    THEN {f.data[k] : k \in 2..Len(f.data) - 1}
    ELSE {}

\* saveState(tasks) is called: the content is built.
SaveBegin(ids) ==
    /\ save.pc = "idle"
    /\ save' = [save EXCEPT !.pc = "open", !.content = stringifyState(ids),
                            !.prev = disk[STATE_FILE]]
    /\ UNCHANGED disk
    /\ UNCHANGED <<queueVars, runVars, sigVars>>

\* writeFileSync opens its target, creating or truncating it.
SaveOpen ==
    /\ save.pc = "open"
    /\ disk' = [disk EXCEPT ![writeTarget] = File(<<>>)]
    /\ save' = [save EXCEPT !.pc = "write"]
    /\ UNCHANGED <<queueVars, runVars, sigVars>>

\* writeFileSync writes the next piece of the content.
SaveWrite ==
    /\ save.pc = "write"
    /\ LET done == Len(disk[writeTarget].data)
       IN IF done < Len(save.content)
          THEN /\ disk' = [disk EXCEPT ![writeTarget].data =
                                         Append(@, save.content[done + 1])]
               /\ UNCHANGED save
          ELSE /\ save' = [save EXCEPT !.pc = "rename"]
               /\ UNCHANGED disk
    /\ UNCHANGED <<queueVars, runVars, sigVars>>

\* writeFileSync throws (the disk is full): the catch logs, saveState
\* returns.
SaveWriteError ==
    /\ save.pc = "write"
    /\ save' = [save EXCEPT !.pc = "idle"]
    /\ UNCHANGED disk
    /\ UNCHANGED <<queueVars, runVars, sigVars>>

\* renameSync(STATE_TEMP, STATE_FILE); it throws when STATE_TEMP is not
\* there, which the catch logs.
SaveRename ==
    /\ save.pc = "rename"
    /\ disk' = IF disk[STATE_TEMP].exists
               THEN [disk EXCEPT ![STATE_FILE] = disk[STATE_TEMP],
                                 ![STATE_TEMP] = AbsentFile]
               ELSE disk
    /\ save' = [save EXCEPT !.pc = "idle"]
    /\ UNCHANGED <<queueVars, runVars, sigVars>>

\* The process is killed inside saveState.
SaveCrash ==
    /\ save.pc \in {"open", "write", "rename"}
    /\ save' = [save EXCEPT !.pc = "crashed"]
    /\ UNCHANGED disk
    /\ UNCHANGED <<queueVars, runVars, sigVars>>

\* The process is started again: initialize calls loadState.
SaveRestart ==
    /\ save.pc = "crashed"
    /\ save' = [save EXCEPT !.pc = "idle", !.loaded = loadIds(disk[STATE_FILE])]
    /\ UNCHANGED disk
    /\ UNCHANGED <<queueVars, runVars, sigVars>>

SaveNext ==
    \/ \E ids \in SUBSET Issues : SaveBegin(ids)
    \/ SaveOpen
    \/ SaveWrite
    \/ SaveWriteError
    \/ SaveRename
    \/ SaveCrash
    \/ SaveRestart

----------------------------------------------------------------------------
(* services/agent-runner.ts, services/git.ts *)

\* The issue whose runs are followed in detail.
RunIssues == {"lin-1"}

\* A runAgent call suspended at an await:
\*   pc        the call it awaits ("agent": the child and its streams,
\*             "drain": the child has exited, its streams are still read),
\*   log       the side effects issued so far, in order,
\*   timedOut  spawnClaude's flag, exitCode the child's exit code,
\*   changes   what hasChanges returned, error the failure reported,
\*   result    what runAgent returned, mark what processNext did with it
\*             (pc "done": the outcome of the last run is kept, its log is
\*             dropped),
\*   pushed    how pushBranch ended, prUrl what createPR returned ("null":
\*             gh exited non-zero, "threw": gh could not be run),
\*   posted    the terminal comments client.addComment has added to the
\*             issue ("completion", "failure"), reviewed whether
\*             updateStatus(review) succeeded.
NewRun ==
    [pc |-> "getIssue", log |-> <<>>, timedOut |-> FALSE, exitCode |-> "none",
     changes |-> "unknown", error |-> "none", result |-> "none",
     mark |-> "none", pushed |-> "none", prUrl |-> "none", posted |-> {},
     reviewed |-> FALSE]

IdleRun == [NewRun EXCEPT !.pc = "idle"]

\* r issues the call named effect and awaits it at pc.
issue(r, pc, effect) == [r EXCEPT !.pc = pc, !.log = Append(@, effect)]

\* handleFailure: the failure comment carrying error is issued and awaited.
handleFailure(r, error) ==
    [r EXCEPT !.pc = "failureComment", !.log = Append(@, "failureComment"),
              !.error = error]

\* runAgent returns.
return(r, success) ==
    [r EXCEPT !.pc = "returned",
              !.result = IF success THEN "success" ELSE "failure"]

\* What the call awaited at pc can yield.
Outcomes(pc) ==
    CASE pc = "getIssue" -> {"issue", "null", "throw"}
      [] pc = "startComment" -> {"ok", "throw", "nospawn"}
      [] pc = "agent" -> {"exit0", "exit1"}
      [] pc = "drain" -> {"done"}
      [] pc = "hasChanges" -> {"yes", "no", "throw"}
      [] pc = "createPR" -> {"url", "null", "throw"}
      [] pc \in {"createWorktree", "in_progress", "commit", "push",
                 "completionComment", "review", "failureComment"}
           -> {"ok", "throw"}
      [] OTHER -> {}

\* A variant of finalize that updates the status first and adds the
\* completion comment second.
finalizeStatusFirst(r, o) ==
    IF r.pc = "completionComment"
    THEN IF o = "ok"
         THEN issue([r EXCEPT !.reviewed = TRUE], "review", "review")
         ELSE IF r.changes = "yes" THEN return(r, TRUE)
         ELSE handleFailure(r, "exception")
    ELSE IF o = "ok"
         THEN return([r EXCEPT !.posted = @ \cup {"completion"}], TRUE)
         ELSE IF r.changes = "yes" THEN return(r, TRUE)
         ELSE handleFailure(r, "exception")

\* runAgent from the completion comment on. With changes the comment and
\* the status update share one try whose catch only logs; without changes
\* they are in the outer try, whose catch reports a failure.
finalize(r, o) ==
    IF r.pc = "completionComment"
    THEN IF o = "ok"
         THEN issue([r EXCEPT !.posted = @ \cup {"completion"}],
                    "review", "review")
         ELSE IF r.changes = "yes" THEN return(r, TRUE)
         ELSE handleFailure(r, "exception")
    ELSE IF o = "ok" THEN return([r EXCEPT !.reviewed = TRUE], TRUE)
         ELSE IF r.changes = "yes" THEN return(r, TRUE)
         ELSE handleFailure(r, "exception")

\* handleFailure after its addComment: a throw is caught and logged, and
\* runAgent returns the failure.
afterFailureComment(r, o) ==
    return([r EXCEPT !.posted = IF o = "ok" THEN @ \cup {"failure"} ELSE @],
           FALSE)

\* A variant of afterSpawn that looks at the timeout flag only.
afterSpawnTimeoutOnly(r) ==
    IF r.timedOut THEN handleFailure(r, "timeout")
    ELSE [r EXCEPT !.pc = "hasChanges"]

\* A variant of afterSpawn that looks at the exit code only.
afterSpawnExitCodeOnly(r) ==
    IF r.exitCode # 0 THEN handleFailure(r, "exit")
    ELSE [r EXCEPT !.pc = "hasChanges"]

\* runAgent after spawnClaude returned: timeout, nonzero exit, or hasChanges.
afterSpawn(r) ==
    IF r.timedOut THEN handleFailure(r, "timeout")
    ELSE IF r.exitCode # 0 THEN handleFailure(r, "exit")
    ELSE [r EXCEPT !.pc = "hasChanges"]

\* A variant of afterChanges that pushes before it commits.
afterChangesPushFirst(r, o) ==
    CASE o = "throw" -> handleFailure(r, "exception")
      [] o = "no" -> issue([r EXCEPT !.changes = "no"],
                           "completionComment", "completionComment")
      [] o = "yes" -> issue(issue([r EXCEPT !.changes = "yes"], "push", "push"),
                            "commit", "commit")

\* runAgent after hasChanges returned o.
afterChanges(r, o) ==
    CASE o = "throw" -> handleFailure(r, "exception")
      [] o = "no" -> issue([r EXCEPT !.changes = "no"],
                           "completionComment", "completionComment")
      [] o = "yes" -> issue([r EXCEPT !.changes = "yes"], "commit", "commit")

\* A variant of afterPush that goes on to the pull request whatever
\* pushBranch did.
afterPushIgnoreFailure(r, o) ==
    issue([r EXCEPT !.pushed = IF o = "ok" THEN "ok" ELSE "failed"],
          "createPR", "createPR")

\* runAgent after pushBranch: pushBranch throws when git push exits
\* non-zero, and the throw lands in runAgent's outer catch.
afterPush(r, o) ==
    IF o = "ok" THEN issue([r EXCEPT !.pushed = "ok"], "createPR", "createPR")
    ELSE handleFailure([r EXCEPT !.pushed = "failed"], "exception")

\* A variant of afterCreatePR in which every createPR failure ends the try.
afterCreatePRFatal(r, o) ==
    IF o = "url"
    THEN issue([r EXCEPT !.prUrl = "url"],
               "completionComment", "completionComment")
    ELSE handleFailure([r EXCEPT !.prUrl = IF o = "null" THEN "null"
                                           ELSE "threw"], "exception")

\* runAgent after createPR: createPR returns null when gh exits non-zero
\* and the run goes on; createPR has no catch of its own, so a gh that
\* cannot be spawned throws into runAgent's outer catch.
afterCreatePR(r, o) ==
    IF o = "throw"
    THEN handleFailure([r EXCEPT !.prUrl = "threw"], "exception")
    ELSE issue([r EXCEPT !.prUrl = o],
               "completionComment", "completionComment")

\* runAgent from the await it is suspended at to the next one, when the
\* awaited call yields o.
runAgentStep(r, o) ==
    CASE r.pc = "getIssue" ->
           IF o = "issue" THEN issue(r, "createWorktree", "createWorktree")
           ELSE handleFailure(r, "exception")
      [] r.pc = "createWorktree" ->
           IF o = "ok" THEN issue(r, "in_progress", "in_progress")
           ELSE handleFailure(r, "exception")
      [] r.pc = "in_progress" -> issue(r, "startComment", "startComment")
      [] r.pc = "startComment" ->
           IF o = "nospawn" THEN handleFailure(r, "exception")
           ELSE issue(r, "agent", "agent")
      [] r.pc = "agent" ->
           [r EXCEPT !.pc = "drain", !.exitCode = IF o = "exit0" THEN 0 ELSE 1]
      [] r.pc = "drain" -> afterSpawn(r)
      [] r.pc = "hasChanges" -> afterChanges(r, o)
      [] r.pc = "commit" ->
           IF o = "ok" THEN issue(r, "push", "push")
           ELSE handleFailure(r, "exception")
      [] r.pc = "push" -> afterPush(r, o)
      [] r.pc = "createPR" -> afterCreatePR(r, o)
      [] r.pc \in {"completionComment", "review"} -> finalize(r, o)
      [] r.pc = "failureComment" -> afterFailureComment(r, o)

\* A cleanup that takes every directory under worktreesPath for an orphan.
cleanupOrphanWorktreesAll(dirs, runningTasks) == dirs

\* git.ts cleanupOrphanWorktrees: the directories under worktreesPath that
\* are no running task's worktreePath.
cleanupOrphanWorktrees(dirs, runningTasks) ==
    dirs \ {t.worktreePath : t \in runningTasks}

NoCleanup == [seen |-> {}, reported |-> {}, removed |-> {}]

\* processNext resumes after the first saveState and calls runAgent, which
\* runs to its first await, or throws before its try block.
RunWorkerStart(w) ==
    /\ resumeAfterSave(w)
    /\ \E started \in BOOLEAN :
         run' = [run EXCEPT ![w.issueId] =
                    IF started THEN NewRun
                    ELSE [NewRun EXCEPT !.pc = "returned", !.result = "throw"]]
    /\ UNCHANGED <<worktrees, orphans, autoCleanOrphans, killed, lost>>
    /\ UNCHANGED <<saveVars, sigVars>>

\* The call a run awaits yields: runAgent continues to its next await.
\* createWorktree leaves the task's directory under worktreesPath.
RunStep(i) ==
    /\ boot = "up" /\ ~MicrotaskPending
    /\ \E o \in Outcomes(run[i].pc) :
         /\ run' = [run EXCEPT ![i] = runAgentStep(run[i], o)]
         /\ worktrees' = IF run[i].pc = "createWorktree" /\ o = "ok"
                         THEN worktrees \cup {runningAgents[i].worktreePath}
                         ELSE worktrees
    /\ UNCHANGED <<boot, saveFailed, pendingQueue, runningAgents,
                   isProcessing, stateFile, workers, inflight, resp, restored,
                   orphans, autoCleanOrphans, killed, lost>>
    /\ UNCHANGED <<saveVars, sigVars>>

\* The setTimeout callback of spawnClaude: timedOut = true; proc.kill(),
\* which is logged as "kill" when the child is still running. The timer is
\* cleared only when the child has exited and both streams have ended.
Timeout(i) ==
    /\ boot = "up" /\ ~MicrotaskPending
    /\ run[i].pc \in {"agent", "drain"} /\ ~run[i].timedOut
    /\ run' = [run EXCEPT ![i].timedOut = TRUE,
                          ![i].log = IF run[i].pc = "agent"
                                     THEN Append(@, "kill") ELSE @]
    /\ UNCHANGED <<boot, saveFailed, pendingQueue, runningAgents,
                   isProcessing, stateFile, workers, inflight, resp, restored,
                   worktrees, orphans, autoCleanOrphans, killed, lost>>
    /\ UNCHANGED <<saveVars, sigVars>>

\* processNext resumes with what runAgent returned.
RunAgentReturn(w) ==
    /\ run[w.issueId].pc = "returned"
    /\ afterRunAgent(w, run[w.issueId].result)
    /\ run' = [run EXCEPT ![w.issueId] =
                   [IdleRun EXCEPT !.pc = "done",
                                   !.result = run[w.issueId].result,
                                   !.error = run[w.issueId].error,
                                   !.changes = run[w.issueId].changes,
                                   !.mark = IF run[w.issueId].result = "success"
                                            THEN "complete" ELSE "failed"]]
    /\ UNCHANGED <<worktrees, orphans, autoCleanOrphans, killed, lost>>
    /\ UNCHANGED <<saveVars, sigVars>>

\* initialize from the call of cleanupOrphanWorktrees, then startServer.
\* A removal can fail; the failure is logged.
RunServe ==
    /\ startServer
    /\ LET found == cleanupOrphanWorktrees(worktrees,
                                           getRunningTasks(runningAgents))
       IN /\ orphans' = [seen |-> worktrees, reported |-> found,
                         removed |-> IF autoCleanOrphans THEN found ELSE {}]
          /\ \E gone \in SUBSET found :
               /\ ~autoCleanOrphans => gone = {}
               /\ worktrees' = worktrees \ gone
    /\ UNCHANGED <<run, autoCleanOrphans, killed, lost>>
    /\ UNCHANGED <<saveVars, sigVars>>

\* The process is killed and started again: the runs are gone, the
\* directories stay.
RunCrash ==
    /\ killAndStart
    /\ run' = [i \in Issues |-> IdleRun]
    /\ killed' = DOMAIN runningAgents
    /\ lost' = {pendingQueue[k].task.issueId : k \in 1..Len(pendingQueue)}
    /\ orphans' = NoCleanup
    /\ UNCHANGED <<worktrees, autoCleanOrphans>>
    /\ UNCHANGED <<saveVars, sigVars>>

----------------------------------------------------------------------------

Init ==
    /\ boot = "init"
    /\ pendingQueue = <<>>
    /\ runningAgents = EmptyMap
    /\ isProcessing = FALSE
    /\ stateFile = NoFile
    /\ workers = EmptyBag
    /\ inflight = EmptyBag
    /\ resp = NoResp
    /\ restored = {}
    /\ saveFailed = FALSE
    /\ run = [i \in Issues |-> IdleRun]
    /\ worktrees = {}
    /\ orphans = NoCleanup
    /\ autoCleanOrphans = FALSE
    /\ killed = {}
    /\ lost = {}
    /\ disk = NoDisk
    /\ save = NoSave
    /\ sig = NoDelivery
    /\ flt = NoPayload

Next ==
    \/ Initialize
    \/ Serve
    \/ Tick
    \/ \E w \in BagToSet(workers) : WorkerStart(w)
    \/ \E w \in BagToSet(workers) : AgentReturn(w)
    \/ \E w \in BagToSet(workers) : WorkerRecurse(w)
    \/ \E i \in GithubIssues : GithubWebhookCheck(i)
    \/ \E h \in BagToSet(inflight) : GithubWebhookAdmit(h)
    \/ \E i \in LinearIssues : LinearWebhook(i)
    \/ \E i \in Issues : RetryCheck(i)
    \/ \E h \in BagToSet(inflight) : RetryAdmit(h)
    \/ Crash

Spec == Init /\ [][Next]_vars

\* The process is killed and started again, the issues whose tasks were
\* pending being noted.
LossCrash ==
    /\ killAndStart
    /\ lost' = {pendingQueue[k].task.issueId : k \in 1..Len(pendingQueue)}
    /\ UNCHANGED <<run, worktrees, orphans, autoCleanOrphans, killed>>
    /\ UNCHANGED <<saveVars, sigVars>>

\* The service with GitHub webhooks only, kills and restarts.
LossNext ==
    \/ Initialize
    \/ Serve
    \/ Tick
    \/ \E w \in BagToSet(workers) : WorkerStart(w)
    \/ \E w \in BagToSet(workers) : AgentReturn(w)
    \/ \E w \in BagToSet(workers) : WorkerRecurse(w)
    \/ \E i \in GithubIssues : GithubWebhookCheck(i)
    \/ \E h \in BagToSet(inflight) : GithubWebhookAdmit(h)
    \/ LossCrash

LossSpec == Init /\ [][LossNext]_vars

\* The service with GitHub webhooks for the issues of the hyphenated
\* repositories only.
PathNext ==
    \/ Initialize
    \/ Serve
    \/ Tick
    \/ \E w \in BagToSet(workers) : WorkerStart(w)
    \/ \E w \in BagToSet(workers) : AgentReturn(w)
    \/ \E w \in BagToSet(workers) : WorkerRecurse(w)
    \/ \E i \in HyphenIssues : GithubWebhookCheck(i)
    \/ \E h \in BagToSet(inflight) : GithubWebhookAdmit(h)

PathSpec == Init /\ [][PathNext]_vars

\* The worker steps and the tick are scheduled by the event loop: a pending
\* continuation runs, a child process that terminates is reaped, and the
\* interval timer keeps firing. Requests and kills are up to the environment.
LiveSpec ==
    /\ Spec
    /\ WF_vars(Tick)
    /\ WF_vars(\E w \in BagToSet(workers) : WorkerStart(w))
    /\ WF_vars(\E w \in BagToSet(workers) : AgentReturn(w))
    /\ WF_vars(\E w \in BagToSet(workers) : WorkerRecurse(w))
    /\ WF_vars(Initialize)
    /\ WF_vars(Serve)

\* The service with the agent runs and the worktrees directory in detail,
\* for either setting of AUTO_CLEAN_ORPHANS, the worktrees directory empty
\* or holding a directory that is no task's.
RunInit ==
    /\ boot = "init"
    /\ pendingQueue = <<>>
    /\ runningAgents = EmptyMap
    /\ isProcessing = FALSE
    /\ stateFile = NoFile
    /\ workers = EmptyBag
    /\ inflight = EmptyBag
    /\ resp = NoResp
    /\ restored = {}
    /\ saveFailed = FALSE
    /\ run = [i \in Issues |-> IdleRun]
    /\ worktrees \in {{}, {"tmp"}}
    /\ orphans = NoCleanup
    /\ autoCleanOrphans \in BOOLEAN
    /\ killed = {}
    /\ lost = {}
    /\ disk = NoDisk
    /\ save = NoSave
    /\ sig = NoDelivery
    /\ flt = NoPayload

RunNext ==
    \/ Initialize
    \/ RunServe
    \/ Tick
    \/ \E w \in BagToSet(workers) : RunWorkerStart(w)
    \/ \E i \in RunIssues : RunStep(i)
    \/ \E i \in RunIssues : Timeout(i)
    \/ \E w \in BagToSet(workers) : RunAgentReturn(w)
    \/ \E w \in BagToSet(workers) : WorkerRecurse(w)
    \/ \E i \in RunIssues : LinearWebhook(i)
    \/ RunCrash

RunSpec == RunInit /\ [][RunNext]_vars

\* The event loop runs every pending continuation and timer; an awaited
\* tracker, git or child-process call yields a result in the end (the
\* child exits by itself or on the kill of the timeout).
RunLiveSpec ==
    /\ RunSpec
    /\ WF_vars(Initialize)
    /\ WF_vars(RunServe)
    /\ WF_vars(Tick)
    /\ WF_vars(\E w \in BagToSet(workers) : RunWorkerStart(w))
    /\ WF_vars(\E i \in RunIssues : RunStep(i))
    /\ WF_vars(\E w \in BagToSet(workers) : RunAgentReturn(w))
    /\ WF_vars(\E w \in BagToSet(workers) : WorkerRecurse(w))

\* The webhook handlers from the arrival of a request to its response, for
\* every body, signature header and secret.
SigSpec == Init /\ [][SigNext]_vars

\* saveState followed write by write, with kills at any point of it.
SaveSpec == Init /\ [][SaveNext]_vars

\* Bound of the model: pieces of the state.json found at startup.
MaxPieces == 3

\* What state.json can hold at startup: nothing, or any bytes: the pieces
\* of a state document in any number and order, or the document null.
StatePieces == {"{", "}", "lin-1", "null"}
StateFiles ==
    {AbsentFile} \cup
    {File(d) : d \in UNION {[1..n -> StatePieces] : n \in 0..MaxPieces}}

\* A task as saveState wrote it and loadState's map revives it.
SavedTask(issueId) ==
    Revive(Stringify([NewTask(issueId, ProviderOf(issueId))
                         EXCEPT !.status = "running", !.startedAt = "date"]))

\* initialize up to the await of cleanupOrphanWorktrees, loadState reading
\* the bytes of state.json.
LoadInitialize ==
    /\ boot = "init"
    /\ LET ids == loadIds(disk[STATE_FILE])
           previousTasks == {SavedTask(i) : i \in ids}
       IN /\ runningAgents' =
                IF previousTasks # {}
                THEN restoreRunningTasks(runningAgents, previousTasks)
                ELSE runningAgents
          /\ restored' = ids
          /\ save' = [save EXCEPT !.loaded = ids]
    /\ boot' = "cleanup"
    /\ saveFailed' = FALSE
    /\ UNCHANGED <<pendingQueue, isProcessing, stateFile, workers, inflight,
                   resp>>
    /\ UNCHANGED <<runVars, sigVars, disk>>

\* The service started on any state.json, with Linear webhooks.
LoadInit ==
    /\ boot = "init"
    /\ pendingQueue = <<>>
    /\ runningAgents = EmptyMap
    /\ isProcessing = FALSE
    /\ stateFile = NoFile
    /\ workers = EmptyBag
    /\ inflight = EmptyBag
    /\ resp = NoResp
    /\ restored = {}
    /\ saveFailed = FALSE
    /\ run = [i \in Issues |-> IdleRun]
    /\ worktrees = {}
    /\ orphans = NoCleanup
    /\ autoCleanOrphans = FALSE
    /\ killed = {}
    /\ lost = {}
    /\ disk \in {[NoDisk EXCEPT ![STATE_FILE] = f] : f \in StateFiles}
    /\ save = NoSave
    /\ sig = NoDelivery
    /\ flt = NoPayload

LoadNext ==
    \/ LoadInitialize
    \/ Serve
    \/ Tick
    \/ \E w \in BagToSet(workers) : WorkerStart(w)
    \/ \E w \in BagToSet(workers) : AgentReturn(w)
    \/ \E w \in BagToSet(workers) : WorkerRecurse(w)
    \/ LinearWebhook("lin-1")
    \/ Crash

LoadSpec == LoadInit /\ [][LoadNext]_vars

\* The Linear handler of a verified delivery from its payload to its
\* response, for every payload and either spelling of the trigger label.
FilterSpec == Init /\ [][FilterNext]_vars

----------------------------------------------------------------------------
(* Properties *)

QueuedIds(q) == {q[k].task.issueId : k \in 1..Len(q)}

\* Number of processNext invocations that hold issueId and have not yet
\* seen runAgent return.
ActiveRuns(issueId) ==
    LET live == {w \in BagToSet(workers) :
                    w.issueId = issueId /\ w.pc \in {"saved", "agent"}}
        RECURSIVE Sum(_)
        Sum(S) == IF S = {} THEN 0
                  ELSE LET w == CHOOSE x \in S : TRUE
                       IN CopiesIn(w, workers) + Sum(S \ {w})
    IN Sum(live)

\* C1: at most one Task per issue across pendingQueue and runningAgents:
\* no issue twice in pending, no issue in pending and running at once, and
\* every running entry is filed under its own issue id.
C1_OneTaskPerIssue ==
    /\ \A j, k \in 1..Len(pendingQueue) :
          j # k => pendingQueue[j].task.issueId # pendingQueue[k].task.issueId
    /\ \A k \in 1..Len(pendingQueue) :
          ~isRunning(runningAgents, pendingQueue[k].task.issueId)
    /\ \A id \in DOMAIN runningAgents : runningAgents[id].issueId = id

\* C1 witness: addTask was called for an issue that is running (the GitHub
\* handler passed its own check earlier) while another task is pending.
C1_Witness ==
    /\ resp.kind = "github" /\ resp.status = "enqueued" /\ resp.busy
    /\ isRunning(runningAgents, resp.issueId)
    /\ pendingQueue # <<>>

\* C2: the running map never holds more than maxConcurrentAgents tasks.
C2_RunningWithinLimit ==
    Cardinality(DOMAIN runningAgents) <= maxConcurrentAgents

\* C2 witness: after a restart that restored a task, the map is full with a
\* restored and a dispatched task while another task waits.
C2_Witness ==
    /\ Cardinality(DOMAIN runningAgents) = maxConcurrentAgents
    /\ restored # {} /\ workers # EmptyBag
    /\ pendingQueue # <<>>

\* C3: dispatch order is insertion order. A step that moves a task into
\* running takes the head of pending; tasks that stay pending keep their
\* relative order; a task that enters pending enters behind every task
\* that was there.
C3_FifoDispatch ==
    [][\A a, b \in Issues :
         /\ (boot = "up" /\ ~isRunning(runningAgents, b)
               /\ isRunning(runningAgents', b))
              => (pendingQueue = <<>> \/ Head(pendingQueue).task.issueId = b)
         /\ (\E j, k \in 1..Len(pendingQueue) :
                 /\ j < k
                 /\ pendingQueue[j].task.issueId = a
                 /\ pendingQueue[k].task.issueId = b)
              /\ {a, b} \subseteq QueuedIds(pendingQueue')
              => \E j, k \in 1..Len(pendingQueue') :
                    /\ j < k
                    /\ pendingQueue'[j].task.issueId = a
                    /\ pendingQueue'[k].task.issueId = b
         /\ (a \in QueuedIds(pendingQueue) /\ a \in QueuedIds(pendingQueue')
               /\ b \notin QueuedIds(pendingQueue)
               /\ b \in QueuedIds(pendingQueue'))
              => \E j, k \in 1..Len(pendingQueue') :
                    /\ j < k
                    /\ pendingQueue'[j].task.issueId = a
                    /\ pendingQueue'[k].task.issueId = b
      ]_vars

\* C3 witness: one task has just been dispatched while two others wait in
\* their insertion order.
C3_Witness ==
    /\ Len(pendingQueue) = 2
    /\ \E w \in BagToSet(workers) : w.pc = "saved"

\* C4: no issue has two agent runs active at the same time.
C4_OneRunPerIssue == \A i \in Issues : ActiveRuns(i) <= 1

\* C4 witness: two runs are active, and a request for the issue of one of
\* them was turned away.
C4_Witness ==
    /\ \E i, j \in Issues : i # j /\ ActiveRuns(i) = 1 /\ ActiveRuns(j) = 1
    /\ resp.busy /\ ActiveRuns(resp.issueId) = 1

\* C5: a webhook delivery for an issue that is queued or running when the
\* handler decides is answered already_processing.
C5_DuplicateDelivery ==
    (resp.kind \in {"github", "linear"} /\ resp.code = 200 /\ resp.busy)
        => resp.status = "already_processing"

\* C6: a retry for an issue that is queued or running when the handler
\* decides (at its first check or at its insertion attempt) is answered 409.
C6_RetryBusyIs409 ==
    (resp.kind = "retry" /\ resp.busy /\ resp.code \notin {400, 404, 500})
        => resp.code = 409

\* C7: every task in the pending queue is eventually dispatched (or the
\* process is killed first).
C7_QueuedEventuallyDispatched ==
    \A i \in Issues :
        isQueued(pendingQueue, i) ~> (isRunning(runningAgents, i) \/ boot # "up")

\* C8: queued -> running -> {completed, failed}. A task enters running only
\* from pending (or in the retry turn that queued it, or restored at start);
\* it never goes from running to pending; it leaves running only when its
\* run returns, and it has left running when its run has returned. Pending
\* tasks carry status queued, running tasks status running and a start time.
C8_TaskLifecycle ==
    [][\A i \in Issues :
         /\ (~isRunning(runningAgents, i) /\ isRunning(runningAgents', i))
              => \/ isQueued(pendingQueue, i)
                 \/ resp' = [kind |-> "retry", issueId |-> i, code |-> 200,
                             status |-> "queued", busy |-> FALSE]
                 \/ boot = "init" /\ i \in restored'
         /\ isRunning(runningAgents, i) => ~isQueued(pendingQueue', i)
         /\ (isRunning(runningAgents, i) /\ ~isRunning(runningAgents', i))
              => (ActiveRuns(i) = 1 /\ ActiveRuns(i)' = 0) \/ boot' = "init"
         /\ (boot' = "up" /\ ActiveRuns(i)' < ActiveRuns(i))
              => ~isRunning(runningAgents', i)
         /\ \A k \in 1..Len(pendingQueue') :
              pendingQueue'[k].task.status = "queued"
         /\ isRunning(runningAgents', i)
              => /\ runningAgents'[i].status = "running"
                 /\ runningAgents'[i].startedAt = "date"
      ]_vars

\* C8 witness: a run has returned, its task is out of the running map, and
\* the next task is still pending.
C8_Witness ==
    /\ \E w \in BagToSet(workers) :
          w.pc = "recurse" /\ ~isRunning(runningAgents, w.issueId)
    /\ pendingQueue # <<>>

\* C9: from the saveState that follows markRunning, if it wrote the file,
\* until runAgent returns, state.json holds the task as a running task.
C9_SnapshotHoldsDispatched ==
    \A w \in BagToSet(workers) :
        (w.pc \in {"saved", "agent"} /\ w.saved)
            => \E t \in stateFile.runningAgents :
                  /\ t.issueId = w.issueId
                  /\ t.status = "running"
                  /\ t.startedAt = "iso"

\* C9 witness: runAgent is about to be called for a task whose snapshot
\* was written, next to a task that is already being run.
C9_Witness ==
    /\ \E w \in BagToSet(workers) : w.pc = "saved" /\ w.saved
    /\ \E w \in BagToSet(workers) : w.pc = "agent"

C11_KilledTaskWorkspaceOrphan ==
    boot = "up" =>
      \A i \in killed :
         getBranchName(i) \in orphans.seen =>
           /\ getBranchName(i) \in orphans.reported
           /\ getBranchName(i) \in orphans.removed <=> autoCleanOrphans

\* C12: a task restored into the running map from the snapshot is
\* eventually processed and removed from the running map (as long as the
\* process is not killed again).
C12_RestoredEventuallyRemoved ==
    \A i \in Issues :
       (boot = "up" /\ i \in restored /\ isRunning(runningAgents, i))
          ~> (~isRunning(runningAgents, i) \/ boot # "up")

\* C13: when the process is killed at any point of a saveState, state.json
\* is afterwards the complete previous snapshot (or still absent) or the
\* complete new snapshot, never a partial one.
C13_AtomicSave ==
    save.pc = "crashed" =>
      /\ disk[STATE_FILE] = save.prev \/ disk[STATE_FILE] = File(save.content)
      /\ disk[STATE_FILE].exists => parses(disk[STATE_FILE].data)

\* C13 witness: a kill in the middle of the write, with part of a different
\* snapshot on disk and state.json still the previous snapshot.
C13_Witness ==
    /\ save.pc = "crashed"
    /\ save.prev.exists /\ File(save.content) # save.prev
    /\ disk[STATE_TEMP].exists
    /\ Len(disk[STATE_TEMP].data) \in 1..(Len(save.content) - 1)
    /\ disk[STATE_FILE] = save.prev

\* The signature of delivery d is absent, malformed (no "sha256=" prefix on
\* GitHub, a prefix or no digest-length value on Linear) or does not match.
BadSignature(d) ==
    \/ falsy(d.header)
    \/ d.header.prefixed # (d.provider = "github")
    \/ Len(hexDecode(d.header.hex)) # Len(hmac(d.body, d.secret))
    \/ hexDecode(d.header.hex) # hmac(d.body, d.secret)

C15_VerificationTotal ==
    sig.pc = "done" =>
      ((sig.code # 401) <=>
         /\ sig.header.present
         /\ sig.header.prefixed = (sig.provider = "github")
         /\ hexDecode(sig.header.hex) = hmac(sig.body, sig.secret))

\* The place of a side effect in the order of a run, 0 for the calls that
\* are not in the order (the failure comment, the kill of the child).
rank(effect) ==
    CASE effect = "createWorktree" -> 1
      [] effect = "in_progress" -> 2
      [] effect = "startComment" -> 3
      [] effect = "agent" -> 4
      [] effect = "commit" -> 5
      [] effect = "push" -> 6
      [] effect = "createPR" -> 7
      [] effect = "completionComment" -> 8
      [] effect = "review" -> 9
      [] OTHER -> 0

Issued(i) == {run[i].log[k] : k \in 1..Len(run[i].log)}

C17_TimeoutIsFailure ==
    [][\A i \in RunIssues :
         "kill" \in Issued(i) =>
           /\ run[i].timedOut
           /\ Issued(i) \cap {"commit", "push", "createPR", "completionComment",
                               "review"} = {}
           /\ run[i].pc \in {"agent", "drain", "failureComment", "returned"}
           /\ run[i].pc \in {"failureComment", "returned"} =>
                 ("failureComment" \in Issued(i) /\ run[i].error = "timeout")
           /\ run[i].pc = "returned" => run[i].result = "failure"
           /\ (run[i].pc = "returned" /\ run'[i].pc = "done") =>
                 (run'[i].mark = "failed" /\ ~isRunning(runningAgents', i))]_vars

\* C17 witness: the timeout fired while the child was running, the child
\* then exited, and the run has returned after its failure comment.
C17_Witness ==
    /\ run["lin-1"].pc = "returned"
    /\ {"kill", "failureComment"} \subseteq Issued("lin-1")
    /\ run["lin-1"].result = "failure"

\* C18: a run whose child exited with code 0 and whose hasChanges returned
\* false returns success with hasChanges = false, having issued no commit,
\* push or PR, the completion comment and the status update to review.
C18_NoChangesCompletes ==
    \A i \in RunIssues :
       (run[i].pc = "returned" /\ run[i].changes = "no") =>
          /\ Issued(i) \cap {"commit", "push", "createPR"} = {}
          /\ {"completionComment", "review"} \subseteq Issued(i)
          /\ run[i].result = "success"

\* C19: a run that got as far as its completion comment (the child
\* succeeded; the changes, if any, are pushed) returns success whatever
\* becomes of the comment and of the status update, and processNext marks
\* the task complete.
C19_TrackerFailureLogOnly ==
    \A i \in RunIssues :
       /\ (run[i].pc = "returned" /\ "completionComment" \in Issued(i))
             => run[i].result = "success"
       /\ (run[i].pc = "done" /\ run[i].result = "success")
             => run[i].mark = "complete"

\* C20: every run that ends completed, with or without changes, has issued
\* the status update to review.
C20_CompletedIssuesReview ==
    \A i \in RunIssues :
       (run[i].pc = "returned" /\ run[i].result = "success")
          => "review" \in Issued(i)

\* C21: a run whose push failed issues no PR and no status update to
\* review, reports the failure, returns a failure, and processNext takes
\* its task out of the running map as failed without queueing it again.
C21_PushFailureIsFatal ==
    [][\A i \in RunIssues :
         run[i].pushed = "failed" =>
           /\ Issued(i) \cap {"createPR", "completionComment", "review"} = {}
           /\ run[i].pc \in {"failureComment", "returned"}
           /\ "failureComment" \in Issued(i)
           /\ run[i].pc = "returned" => run[i].result = "failure"
           /\ (run[i].pc = "returned" /\ run'[i].pc = "done") =>
                 /\ run'[i].mark = "failed"
                 /\ ~isRunning(runningAgents', i)
                 /\ ~isQueued(pendingQueue', i)]_vars

\* C21 witness: the run committed, its push failed, and it has returned.
C21_Witness ==
    /\ run["lin-1"].pc = "returned"
    /\ run["lin-1"].pushed = "failed"
    /\ {"commit", "push"} \subseteq Issued("lin-1")

\* C22: a run whose createPR failed after a successful push (gh exited
\* non-zero, or gh could not be run) still returns success, and has issued
\* both the completion comment and the status update to review.
C22_PRFailureNonFatal ==
    \A i \in RunIssues :
       (run[i].pc = "returned" /\ run[i].pushed = "ok"
           /\ run[i].prUrl \in {"null", "threw"}) =>
          /\ run[i].result = "success"
          /\ {"completionComment", "review"} \subseteq Issued(i)

\* C23: when runAgent throws, the step in which processNext resumes takes
\* the task out of the running map, leaves it out of pending, and calls
\* saveState with the remaining running tasks (the write itself may fail);
\* the invocation then goes on to processNext(), which dispatches the head
\* of pending if there is one and capacity allows.
C23_ThrowCaughtAtProcessor ==
    [][/\ \A w \in BagToSet(workers') :
            (w.pc = "recurse" /\ ~BagIn(w, workers) /\ w.result = "throw") =>
               /\ ~isRunning(runningAgents', w.issueId)
               /\ ~isQueued(pendingQueue', w.issueId)
               /\ pendingQueue' = pendingQueue
               /\ stateFile' \in
                    {stateFile,
                     saveState(stateFile, getRunningTasks(runningAgents'), TRUE)}
       /\ \A w \in BagToSet(workers) :
            (w.pc = "recurse" /\ w.result = "throw" /\ boot' = "up") =>
               /\ ~BagIn(w, workers')
               /\ IF canStartNew(runningAgents) /\ pendingQueue # <<>>
                  THEN /\ pendingQueue' = Tail(pendingQueue)
                       /\ isRunning(runningAgents',
                                    Head(pendingQueue).task.issueId)
                  ELSE /\ pendingQueue' = pendingQueue
                       /\ runningAgents' = runningAgents]_vars

\* C23 witness: runAgent threw for one task while another task is pending;
\* the invocation is about to call processNext().
C23_Witness ==
    \E w \in BagToSet(workers) :
       /\ w.pc = "recurse" /\ w.result = "throw"
       /\ pendingQueue # <<>> /\ canStartNew(runningAgents)
       /\ ~isRunning(runningAgents, w.issueId)

\* C24: when a webhook or retry handler answers that it admitted a task
\* (200 enqueued / queued for an issue that was neither queued nor
\* running), the task's agent run has not finished, nor even begun: the
\* task is in pending, or it was dispatched by the handler itself and its
\* invocation of processNext is suspended before the call of runAgent.
C24_ResponseBeforeRun ==
    [][((resp' # resp \/ Len(pendingQueue') > Len(pendingQueue)
            \/ BagCardinality(inflight') < BagCardinality(inflight))
          /\ resp'.code = 200 /\ resp'.status \in {"enqueued", "queued"}
          /\ ~resp'.busy) =>
         \/ isQueued(pendingQueue', resp'.issueId)
         \/ /\ isRunning(runningAgents', resp'.issueId)
            /\ \E w \in BagToSet(workers') :
                 w.issueId = resp'.issueId /\ w.pc = "saved"]_vars

\* C24 witness: a retry request was answered 200 and its task was
\* dispatched by the handler; the run has not started.
C24_Witness ==
    /\ resp.kind = "retry" /\ resp.code = 200 /\ ~resp.busy
    /\ isRunning(runningAgents, resp.issueId)
    /\ \E w \in BagToSet(workers) : w.issueId = resp.issueId /\ w.pc = "saved"

\* C25: the step in which processNext learns that its task failed
\* (runAgent returned a failure or threw) leaves the task in neither the
\* running map nor pending; an issue enters pending only in a step in
\* which a webhook or retry handler answers 200 for it, and enters the
\* running map only from pending or in the retry handler's own dispatch.
C25_FailedNotRequeued ==
    [][/\ \A w \in BagToSet(workers') :
            (w.pc = "recurse" /\ ~BagIn(w, workers)
                /\ w.result \in {"failure", "throw"}) =>
               /\ ~isRunning(runningAgents', w.issueId)
               /\ ~isQueued(pendingQueue', w.issueId)
       /\ \A i \in Issues :
            LET admitted ==
                  /\ resp'.issueId = i /\ resp'.code = 200
                  /\ resp'.status \in {"enqueued", "queued"}
                  /\ \/ workers' = workers
                     \/ BagCardinality(inflight') < BagCardinality(inflight)
            IN /\ (~isQueued(pendingQueue, i) /\ isQueued(pendingQueue', i))
                     => admitted
               /\ (boot = "up" /\ ~isRunning(runningAgents, i)
                       /\ isRunning(runningAgents', i))
                     => (isQueued(pendingQueue, i) \/ admitted)]_vars

\* C25 witness: a task has failed and is in neither pending nor the running
\* map, while its issue's last answer was an admission.
C25_Witness ==
    \E w \in BagToSet(workers) :
       /\ w.pc = "recurse" /\ w.result = "failure"
       /\ ~isRunning(runningAgents, w.issueId)
       /\ ~isQueued(pendingQueue, w.issueId)
       /\ resp.issueId = w.issueId /\ resp.code = 200

\* The tasks in pending or in the running map.
LiveTasks ==
    {pendingQueue[k].task : k \in 1..Len(pendingQueue)}
       \cup {runningAgents[i] : i \in DOMAIN runningAgents}

\* C26: no two tasks of different issues that are in pending or running at
\* the same time have the same workspace path.
C26_WorkspaceOwnedByOneTask ==
    \A t1 \in LiveTasks : \A t2 \in LiveTasks :
       t1.issueId # t2.issueId => t1.worktreePath # t2.worktreePath

C28_DispatchedAfterRestore ==
    \A i \in Issues :
       (restored # {} /\ boot = "up" /\ isQueued(pendingQueue, i))
          ~> (isRunning(runningAgents, i) \/ boot # "up")

\* The child of the run of issue i has exited.
ChildExited(i) == "agent" \in Issued(i) /\ run[i].pc # "agent"

\* C29: a run that has issued a commit, a push or a PR is one whose child
\* exited with code 0 without timing out and whose hasChanges returned
\* true; a run whose child exited non-zero issues none of commit, push, PR
\* and status update to review, and returns a failure.
C29_CommitOnlyAfterCleanExit ==
    \A i \in RunIssues :
       /\ Issued(i) \cap {"commit", "push", "createPR"} # {} =>
             /\ ChildExited(i) /\ run[i].exitCode = 0
             /\ ~run[i].timedOut
             /\ run[i].changes = "yes"
       /\ (ChildExited(i) /\ run[i].exitCode # 0) =>
             /\ Issued(i) \cap {"commit", "push", "createPR", "review"} = {}
             /\ run[i].pc = "returned" => run[i].result = "failure"

\* C29 witness: the child exited non-zero without timing out and the run
\* has returned.
C29_Witness ==
    /\ run["lin-1"].pc = "returned"
    /\ ChildExited("lin-1") /\ run["lin-1"].exitCode = 1
    /\ ~run["lin-1"].timedOut
    /\ run["lin-1"].result = "failure"

\* C30: a task that leaves pending is in the running map at the end of the
\* same step, and so is the task of every processNext invocation that has
\* not yet finalized it; while such an invocation exists no step puts its
\* issue into pending.
C30_DispatchIsAtomic ==
    [][\A i \in Issues :
         /\ (isQueued(pendingQueue, i) /\ ~isQueued(pendingQueue', i)
                /\ boot' = "up") => isRunning(runningAgents', i)
         /\ (\E w \in BagToSet(workers') :
                w.issueId = i /\ w.pc \in {"saved", "agent"}) =>
               (isRunning(runningAgents', i) /\ ~isQueued(pendingQueue', i))
         /\ (\E w \in BagToSet(workers) :
                w.issueId = i /\ w.pc \in {"saved", "agent"}) =>
               ~(~isQueued(pendingQueue, i) /\ isQueued(pendingQueue', i))]_vars

\* C30 witness: a task has just been dispatched (its invocation is
\* suspended at the first saveState) while a request handler for the same
\* issue is waiting for getIssue.
C30_Witness ==
    \E w \in BagToSet(workers) :
       /\ w.pc = "saved"
       /\ isRunning(runningAgents, w.issueId)
       /\ ~isQueued(pendingQueue, w.issueId)
       /\ \E h \in BagToSet(inflight) : h.issueId = w.issueId

\* C31: a run has added at most one terminal comment to its issue: the
\* completion comment or the failure comment, never both.
C31_OneTerminalComment ==
    \A i \in RunIssues : Cardinality(run[i].posted) <= 1

\* C32: a run that reports or has returned a failure has made no
\* successful status update to review.
C32_FailureNeverReviewed ==
    \A i \in RunIssues :
       (run[i].pc = "failureComment"
           \/ (run[i].pc = "returned" /\ run[i].result = "failure"))
          => ~run[i].reviewed

\* C32 witness: a run attempted the status update to review, the update
\* threw, and the run returned a failure.
C32_Witness ==
    /\ run["lin-1"].pc = "returned" /\ run["lin-1"].result = "failure"
    /\ "review" \in Issued("lin-1")
    /\ ~run["lin-1"].reviewed

\* C33: a run whose child exited with code 0 while the timeout timer had
\* not fired does not report a timeout.
C33_CleanExitIsNoTimeout ==
    \A i \in RunIssues :
       (ChildExited(i) /\ run[i].exitCode = 0 /\ "kill" \notin Issued(i)
           /\ run[i].pc \in {"failureComment", "returned"})
          => run[i].error # "timeout"

\* C34: a restart starts with an empty pending queue and restores into the
\* running map the tasks of the state file and no others; an issue whose
\* task was pending when the process was killed becomes running only from
\* pending, and enters pending only in a step in which a webhook handler
\* answers "enqueued" for it.
C34_PendingLostAtRestart ==
    [][/\ boot' \in {"init", "cleanup"} => pendingQueue' = <<>>
       /\ (boot = "init" /\ boot' = "cleanup") =>
             DOMAIN runningAgents' = {t.issueId : t \in loadState(stateFile)}
       /\ \A i \in lost :
            /\ (boot = "up" /\ ~isRunning(runningAgents, i)
                   /\ isRunning(runningAgents', i))
                  => isQueued(pendingQueue, i)
            /\ (~isQueued(pendingQueue, i) /\ isQueued(pendingQueue', i))
                  => /\ resp'.issueId = i /\ resp'.code = 200
                     /\ resp'.status = "enqueued"
                     /\ BagCardinality(inflight') < BagCardinality(inflight)]_vars

\* C34 witness: the process was killed while one task was running and
\* another was pending; after the restart the first is restored and the
\* second is neither pending nor running.
C34_Witness ==
    /\ boot = "up" /\ restored # {} /\ lost # {}
    /\ pendingQueue = <<>>
    /\ \A i \in lost : ~isRunning(runningAgents, i)

\* C35: a step in which a webhook or retry handler answers that it admitted
\* a task, taken while the processor is started and below capacity, also
\* runs processNext: a task is dispatched in the same step.
C35_AdmissionTriggers ==
    [][((resp' # resp \/ Len(pendingQueue') > Len(pendingQueue)
            \/ BagCardinality(inflight') < BagCardinality(inflight))
          /\ resp'.code = 200 /\ resp'.status \in {"enqueued", "queued"}
          /\ ~resp'.busy
          /\ isProcessing /\ canStartNew(runningAgents)) =>
         \E w \in BagToSet(workers') : w.pc = "saved" /\ ~BagIn(w, workers)]_vars

\* C36: a saveState whose write failed changes nothing else. A task that
\* becomes running has an invocation of processNext that goes on to
\* runAgent also when the write after markRunning failed; when runAgent
\* returns the task leaves the running map also when that write, or the
\* write of the finally block, failed; and the invocation then calls
\* processNext(), which dispatches the head of pending if capacity allows.
C36_FailedWriteLogOnly ==
    [][/\ \A i \in Issues :
            (boot = "up" /\ ~isRunning(runningAgents, i)
                /\ isRunning(runningAgents', i)) =>
               \E w \in BagToSet(workers') :
                  w.issueId = i /\ w.pc = "saved" /\ w.saved = ~saveFailed'
       /\ \A w \in BagToSet(workers) :
            (boot' = "up" /\ ~BagIn(w, workers')) =>
               CASE w.pc = "saved" ->
                      BagIn([w EXCEPT !.pc = "agent"], workers')
                 [] w.pc = "agent" ->
                      /\ ~isRunning(runningAgents', w.issueId)
                      /\ \E f \in BagToSet(workers') :
                           f.pc = "recurse" /\ f.issueId = w.issueId
                 [] OTHER ->
                      IF canStartNew(runningAgents) /\ pendingQueue # <<>>
                      THEN isRunning(runningAgents',
                                     Head(pendingQueue).task.issueId)
                      ELSE runningAgents' = runningAgents]_vars

\* C36 witness: the write after markRunning failed for a task, runAgent has
\* returned, the write of the finally block failed too, the task is out of
\* the running map, and the invocation is about to dispatch a pending task.
C36_Witness ==
    /\ saveFailed /\ ~stateFile.exists
    /\ pendingQueue # <<>> /\ canStartNew(runningAgents)
    /\ \E w \in BagToSet(workers) :
         w.pc = "recurse" /\ ~isRunning(runningAgents, w.issueId)

\* C37: until the server accepts requests nothing is admitted or
\* dispatched and the processor is not started; the restore is done before
\* the orphan cleanup, which sees the restored tasks; the cleanup is done
\* before the processor starts; and the processor is started when the
\* server accepts requests.
C37_BootOrder ==
    [][/\ boot = "init" => (runningAgents = EmptyMap /\ restored = {})
       /\ boot # "up" =>
             /\ ~isProcessing /\ orphans = NoCleanup
             /\ pendingQueue = <<>> /\ workers = EmptyBag
             /\ inflight = EmptyBag
             /\ \A i \in RunIssues : run[i].pc = "idle"
       /\ boot = "cleanup" =>
             DOMAIN runningAgents = {t.issueId : t \in loadState(stateFile)}
       /\ boot = "up" => isProcessing
       /\ (boot = "cleanup" /\ boot' = "up") =>
             /\ orphans'.seen = worktrees
             /\ orphans'.reported =
                  cleanupOrphanWorktrees(worktrees,
                                         getRunningTasks(runningAgents))
             /\ runningAgents' = runningAgents
       /\ boot' = "up" => boot \in {"cleanup", "up"}]_vars

\* C37 witness: the server accepts requests after a boot that restored a
\* task and whose orphan cleanup looked at the worktrees directory.
C37_Witness ==
    /\ boot = "up" /\ isProcessing
    /\ restored # {} /\ orphans.seen # {}
    /\ pendingQueue = <<>> /\ workers = EmptyBag

\* C38: the cleanup of a start reports as orphans exactly the directories
\* under the worktrees root that are not the workspace of a task in the
\* running map (the restored tasks); it issues removals for the orphans
\* when autoCleanOrphans is set and for nothing otherwise; and the step
\* removes no directory that is not an orphan, so never the workspace of a
\* task in the running map.
C38_OrphansExact ==
    [][/\ boot = "up" =>
             /\ orphans.reported =
                  orphans.seen \ {getBranchName(i) : i \in restored}
             /\ orphans.removed =
                  IF autoCleanOrphans THEN orphans.reported ELSE {}
       /\ (boot = "cleanup" /\ boot' = "up") =>
             /\ worktrees' \subseteq worktrees
             /\ worktrees \ worktrees' \subseteq orphans'.reported
             /\ ~autoCleanOrphans => worktrees' = worktrees
             /\ \A i \in DOMAIN runningAgents :
                  runningAgents[i].worktreePath \in worktrees =>
                     /\ runningAgents[i].worktreePath \in worktrees'
                     /\ runningAgents[i].worktreePath \notin orphans'.reported]_vars

\* C38 witness: a start with autoCleanOrphans set found the workspace of a
\* restored task and another directory, and took only the other directory
\* for an orphan.
C38_Witness ==
    /\ boot = "up" /\ autoCleanOrphans
    /\ restored = {"lin-1"}
    /\ orphans.seen = {"ENG-1", "tmp"}
    /\ orphans.reported = {"tmp"} /\ orphans.removed = {"tmp"}
    /\ "ENG-1" \in worktrees

\* What the filter is to admit: an Issue update carrying a previous
\* label-id list, with a label id of (current \ previous) that resolved to
\* a name equal to the trigger label up to case.
TriggerAdded(p) ==
    /\ p.type = "Issue" /\ p.action = "update" /\ p.hasPrevious
    /\ \E k \in 1..Len(p.current) :
         /\ \A j \in 1..Len(p.previous) : p.previous[j] # p.current[k]
         /\ p.current[k] \in p.resolved
         /\ toLowerCase(labelName(p.current[k])) = toLowerCase(p.trigger)

\* C39: the Linear webhook filter admits a delivery if and only if it is
\* an Issue update carrying a previous label-id list and a label id of
\* (current \ previous) resolves to a name that equals the trigger label
\* up to case; every other delivery is answered "ignored", and the queue
\* grows only for an admitted delivery.
C39_FilterAdmitsAddedTrigger ==
    [][/\ flt.pc \in {"filtered", "getIssue", "done"}
            => (flt.admit <=> TriggerAdded(flt))
       /\ flt.pc = "done" /\ ~TriggerAdded(flt) => flt.status = "ignored"
       /\ pendingQueue' # pendingQueue => TriggerAdded(flt)]_vars

\* A delivery whose previous list is not empty was admitted and enqueued
\* on a label whose name differs from the trigger label in case only.
C39_Witness ==
    /\ flt.pc = "done" /\ flt.status = "enqueued"
    /\ flt.previous # <<>>
    /\ \A id \in flt.resolved : labelName(id) # flt.trigger
    /\ isQueued(pendingQueue, "lin-1")

\* state.json is absent, or its bytes are no state document.
Unreadable(f) == ~f.exists \/ ~parses(f.data)

\* C40: when state.json is absent or its content is corrupt, loadState
\* returns no task and initialize leaves the running map empty; the boot
\* goes on to the orphan cleanup and the start of the processor, and the
\* server then runs with the processor on and nothing restored.
C40_UnreadableStateIsEmpty ==
    [][/\ (boot = "init" /\ boot' = "cleanup"
             /\ Unreadable(disk[STATE_FILE])) =>
             /\ save'.loaded = {}
             /\ runningAgents' = EmptyMap
       /\ (boot = "cleanup" /\ Unreadable(disk[STATE_FILE])) =>
             /\ runningAgents = EmptyMap /\ restored = {}
             /\ boot' \in {"cleanup", "up", "init"}
       /\ boot' = "up" => isProcessing'
       /\ (boot = "up" /\ Unreadable(disk[STATE_FILE])) =>
             /\ restored = {}
             /\ DOMAIN runningAgents \subseteq
                  {w.issueId : w \in BagToSet(workers)}]_vars

\* C40 witness: the service booted on a state.json cut short after a task
\* and is running a task admitted since.
C40_Witness ==
    /\ boot = "up" /\ isProcessing
    /\ disk[STATE_FILE].exists /\ ~parses(disk[STATE_FILE].data)
    /\ \E k \in 1..Len(disk[STATE_FILE].data) :
         disk[STATE_FILE].data[k] \in Issues
    /\ restored = {} /\ isRunning(runningAgents, "lin-1")
====
